---- MODULE Spec2Model ----
(***************************************************************************)
(* Certificate generation service: the Certificate and Template            *)
(* collections, the files of the output directory, the create / archive /  *)
(* download / bulk-delete request handlers of                              *)
(* backend/routes/certificate.js, the template handlers of                 *)
(* backend/routes/template.js and the two renderers of                     *)
(* backend/services/certificateGenerator.js.                               *)
(*                                                                         *)
(* Numbers the renderers compute are JavaScript doubles; the model keeps   *)
(* them as exact fractions [n, d] in lowest terms.                         *)
(***************************************************************************)
EXTENDS Integers, Sequences, FiniteSets, TLC

\* ------------------------------------------------------------------ bounds
MaxCreates == 2
LegacyHigh == 999
MaxDownloads == 1
MaxServed == 2

\* ------------------------------------------------------- program constants
PadWidth == 3
DefaultDisplayWidth == 800
DefaultFontSize == 24

Years == {2024, 2025}
BaseYear == CHOOSE y \in Years : \A z \in Years : y <= z
Admins == {"a1", "a2"}
\* The admins who upload a template here; the others only issue requests.
Uploaders == {"a1"}
Formats == {"pdf", "png"}
TemplateIds == {1}
Reqs == {1, 2}

\* An absent JavaScript value (undefined) is the empty sequence, a present
\* value v the one-element sequence <<v>>.
Undefined == <<>>
Some(v) == <<v>>
IsDefined(o) == o # <<>>
Val(o) == o[1]

\* ------------------------------------------------------ decimal strings
\* A sequence number as the certificateId carries it: its decimal digits.
RECURSIVE ToDigits(_)
ToDigits(n) ==
  IF n < 10 THEN <<n>> ELSE Append(ToDigits(n \div 10), n % 10)

RECURSIVE PadStart(_, _)
PadStart(ds, w) ==
  IF Len(ds) >= w THEN ds ELSE PadStart(<<0>> \o ds, w)

RECURSIVE ParseInt(_)
ParseInt(ds) ==
  IF Len(ds) = 0 THEN 0
  ELSE 10 * ParseInt(SubSeq(ds, 1, Len(ds) - 1)) + ds[Len(ds)]

\* Binary string order on digit strings, as the database sorts them.
RECURSIVE StrLess(_, _)
StrLess(a, b) ==
  IF Len(b) = 0 THEN FALSE
  ELSE IF Len(a) = 0 THEN TRUE
  ELSE IF a[1] # b[1] THEN a[1] < b[1]
  ELSE StrLess(Tail(a), Tail(b))

StrLeq(a, b) == a = b \/ StrLess(a, b)

CertId(y, n) == [year |-> y, seq |-> PadStart(ToDigits(n), PadWidth)]

\* ---------------------------------------------------------- fractions
RECURSIVE Gcd(_, _)
Gcd(a, b) == IF b = 0 THEN a ELSE Gcd(b, a % b)

\* d = 0 stands for the doubles a division by zero yields: n = 1 for
\* Infinity, n = 0 for NaN.
Frac(n, d) ==
  LET g == Gcd(n, d)
  IN  IF g = 0 THEN [n |-> 0, d |-> 0] ELSE [n |-> n \div g, d |-> d \div g]
Num(n) == [n |-> n, d |-> 1]
FMul(a, b) == Frac(a.n * b.n, a.d * b.d)
FDiv(a, b) == Frac(a.n * b.d, a.d * b.n)
FIsZero(a) == a.n = 0

\* ------------------------------------------------------ coordinate mapper
\* A placeholder is [type, x, y, fontSize]; an image size is [width, height];
\* containerDimensions is Undefined or Some([width, height]) with each field
\* Undefined or Some(number); placeholderValues is Undefined or Some(map).

\* containerDimensions?.width and containerDimensions?.height
OptWidth(cd) == IF IsDefined(cd) THEN Val(cd).width ELSE Undefined
OptHeight(cd) == IF IsDefined(cd) THEN Val(cd).height ELSE Undefined

\* JavaScript truthiness of an optional number
Truthy(o) == IsDefined(o) /\ Val(o) # 0

\* placeholderValues[placeholder.type] || ''
ValueOf(pv, p) ==
  IF p.type \in DOMAIN Val(pv) THEN Val(pv)[p.type] ELSE ""

\* placeholder.fontSize || 24
FontSizeOf(p) == IF p.fontSize # 0 THEN p.fontSize ELSE DefaultFontSize

\* --- raster renderer
PngDisplayWidth(cd) ==
  IF Truthy(OptWidth(cd)) THEN Num(Val(OptWidth(cd))) ELSE Num(DefaultDisplayWidth)

PngDisplayHeight(img, cd) ==
  IF Truthy(OptHeight(cd)) THEN Num(Val(OptHeight(cd)))
  ELSE FDiv(FMul(PngDisplayWidth(cd), Num(img.height)), Num(img.width))

PngScale_Inverted(img, cd) ==
  [scaleX |-> FDiv(PngDisplayWidth(cd), Num(img.width)),
   scaleY |-> FDiv(PngDisplayHeight(img, cd), Num(img.height))]

PngScale(img, cd) ==
  [scaleX |-> FDiv(Num(img.width), PngDisplayWidth(cd)),
   scaleY |-> FDiv(Num(img.height), PngDisplayHeight(img, cd))]

PngShouldDraw_Always(value) == TRUE

PngShouldDraw(value) == value # ""

PngScaled_YByScaleX(p, sc) ==
  [x |-> FMul(Num(p.x), sc.scaleX),
   y |-> FMul(Num(p.y), sc.scaleX),
   fontSize |-> FMul(Num(FontSizeOf(p)), sc.scaleX)]

PngScaled_FontByScaleY(p, sc) ==
  [x |-> FMul(Num(p.x), sc.scaleX),
   y |-> FMul(Num(p.y), sc.scaleY),
   fontSize |-> FMul(Num(FontSizeOf(p)), sc.scaleY)]

PngScaled(p, sc) ==
  [x |-> FMul(Num(p.x), sc.scaleX),
   y |-> FMul(Num(p.y), sc.scaleY),
   fontSize |-> FMul(Num(FontSizeOf(p)), sc.scaleX)]

PngDrawOf(p, pv, sc) ==
  [type |-> p.type, text |-> ValueOf(pv, p), at |-> PngScaled(p, sc)]

\* The fillText calls of generatePNG, in order.
PngDraws(placeholders, pv, img, cd) ==
  LET sel == SelectSeq(placeholders, LAMBDA p : PngShouldDraw(ValueOf(pv, p)))
  IN  [i \in 1..Len(sel) |-> PngDrawOf(sel[i], pv, PngScale(img, cd))]

\* --- vector renderer
PdfDisplayWidth_ZeroKept(cd) ==
  IF IsDefined(OptWidth(cd)) THEN Num(Val(OptWidth(cd))) ELSE Num(DefaultDisplayWidth)

PdfDisplayWidth(cd) ==
  IF Truthy(OptWidth(cd)) THEN Num(Val(OptWidth(cd))) ELSE Num(DefaultDisplayWidth)

PdfDisplayHeight(img, cd) ==
  IF Truthy(OptHeight(cd)) THEN Num(Val(OptHeight(cd)))
  ELSE FDiv(FMul(PdfDisplayWidth(cd), Num(img.height)), Num(img.width))

PdfScale(img, cd) ==
  [scaleX |-> FDiv(Num(img.width), PdfDisplayWidth(cd)),
   scaleY |-> FDiv(Num(img.height), PdfDisplayHeight(img, cd))]

PdfShouldDraw(value) == value # ""

PdfScaled_AllByScaleX(p, sc) ==
  [x |-> FMul(Num(p.x), sc.scaleX),
   y |-> FMul(Num(p.y), sc.scaleX),
   fontSize |-> FMul(Num(FontSizeOf(p)), sc.scaleX)]

PdfScaled(p, sc) ==
  [x |-> FMul(Num(p.x), sc.scaleX),
   y |-> FMul(Num(p.y), sc.scaleY),
   fontSize |-> FMul(Num(FontSizeOf(p)), sc.scaleX)]

PdfDrawOf(p, pv, sc) ==
  [type |-> p.type, text |-> ValueOf(pv, p), at |-> PdfScaled(p, sc)]

\* The doc.text calls of generatePDF, in order.
PdfDraws(placeholders, pv, img, cd) ==
  LET sel == SelectSeq(placeholders, LAMBDA p : PdfShouldDraw(ValueOf(pv, p)))
  IN  [i \in 1..Len(sel) |-> PdfDrawOf(sel[i], pv, PdfScale(img, cd))]

\* A renderer's outcome: it threw, or it returned after computing this
\* display size and these scale factors and making these draw calls.
\* Reading placeholderValues[...] of an undefined placeholderValues throws;
\* decodeOk is whether loadImage / the drawing engine accepted the asset.
Threw ==
  [ok |-> FALSE,
   display |-> [width |-> Num(0), height |-> Num(0)],
   scale |-> [scaleX |-> Num(0), scaleY |-> Num(0)],
   draws |-> <<>>]

GeneratePNG(placeholders, pv, img, cd, decodeOk) ==
  IF ~decodeOk THEN Threw
  ELSE IF Len(placeholders) > 0 /\ ~IsDefined(pv) THEN Threw
  ELSE [ok |-> TRUE,
        display |-> [width |-> PngDisplayWidth(cd),
                     height |-> PngDisplayHeight(img, cd)],
        scale |-> PngScale(img, cd),
        draws |-> PngDraws(placeholders, pv, img, cd)]

GeneratePDF(placeholders, pv, img, cd, decodeOk) ==
  IF ~decodeOk THEN Threw
  ELSE IF Len(placeholders) > 0 /\ ~IsDefined(pv) THEN Threw
  ELSE [ok |-> TRUE,
        display |-> [width |-> PdfDisplayWidth(cd),
                     height |-> PdfDisplayHeight(img, cd)],
        scale |-> PdfScale(img, cd),
        draws |-> PdfDraws(placeholders, pv, img, cd)]

\* The status the create handler sets: 'generated' when generateCertificate
\* returned (line 97), 'failed' in its catch (line 116).
StatusOf(returned) == IF returned THEN "generated" ELSE "failed"

\* ------------------------------------------------------------------ state
VARIABLES
  year,        \* the calendar year new Date().getFullYear() returns
  templates,   \* the Template collection
  certs,       \* the Certificate collection
  files,       \* the generated/ directory: [id, format] per file
  reqs,        \* the POST /create requests in flight, per slot
  nextOid,     \* the next ObjectId the driver hands out
  lastResp,    \* the response a handler sent in the latest step, if any
  overlapped,  \* history: two POST /create requests were in flight at once
  mapper,      \* one renderer pair run on drawn inputs (MapperSpec only)
  bulk,        \* the POST /bulk-download request in flight and its events
  downloads    \* the single downloads in flight and those served, per record

vars ==
  <<year, templates, certs, files, reqs, nextOid, lastResp, overlapped, mapper,
    bulk, downloads>>

mainVars ==
  <<year, templates, certs, files, reqs, nextOid, lastResp, overlapped, bulk,
    downloads>>

\* ---------------------------------------------------------------- inputs
NameP == [type |-> "name", x |-> 100, y |-> 50, fontSize |-> 24]
IdP == [type |-> "id", x |-> 0, y |-> 200, fontSize |-> 12]

\* Placeholder lists a client may post to the placeholder-save endpoint.
PlaceholderLists == {<<NameP>>, <<NameP, IdP>>}

\* Further lists a client may post when it edits a template again, the names
\* it may post to the template update, and the dimensions it may post
\* together with a placeholder list.
EditedLists == {<<>>, <<IdP>>, <<IdP, NameP>>}
UpdateNames == {"n1", "n2"}
PostedDimensions == {[width |-> 800, height |-> 480]}

TemplateNames == {"n1"}
TemplateImage == [width |-> 1000, height |-> 600]

\* placeholderValues and containerDimensions a client may post to /create.
ValueMaps ==
  {Undefined,
   Some([name |-> "Al", id |-> "X1"]),
   Some([name |-> "", id |-> "X1"]),
   Some([name |-> "Al"])}

\* The request bodies posted to /create.
CreateBodies ==
  {[pv |-> Some([name |-> "Al", id |-> "X1"]),
    cd |-> Some([width |-> Some(800), height |-> Some(480)])],
   [pv |-> Some([id |-> "X1"]), cd |-> Undefined]}

\* The confirmation phrase of the bulk delete, and the confirmText values a
\* client may post (absent, exact, other case, trailing blank).
RequiredText == "DELETE ALL CERTIFICATES"
ConfirmTexts ==
  {Undefined, Some(RequiredText), Some("delete all certificates"),
   Some("DELETE ALL CERTIFICATES ")}

\* ----------------------------------------------------------- collections
NoFiles == {}
FileOf(id, f) == [id |-> id, format |-> f]
BothFiles(id) == {FileOf(id, f) : f \in Formats}

NoDoc == [oid |-> 0, certificateId |-> CertId(BaseYear, 0),
          status |-> "none", generatedFiles |-> NoFiles]

NoTemplate == [name |-> "", placeholders |-> <<>>, dimensions |-> TemplateImage]

IdleReq ==
  [pc |-> "idle", admin |-> "", tid |-> 0, pv |-> Undefined, cd |-> Undefined,
   tmpl |-> NoTemplate, doc |-> NoDoc, png |-> Undefined, pdf |-> Undefined]

\* A sent response (to the request of slot r): its code and the status of the
\* certificate in its body.
NoResp == [code |-> "none", status |-> "none"]
Resp(r, code, status) == [code |-> code, status |-> status]

\* No bulk download and no single download under way.
NoBulk == [pc |-> "none"]
NoDownloads == [pc |-> "none"]

NoMapper ==
  [img |-> TemplateImage, cd |-> Undefined, placeholders |-> <<>>,
   pv |-> Undefined, decodeOk |-> TRUE, png |-> Undefined, pdf |-> Undefined,
   status |-> "pending"]

CertIds == {c.certificateId : c \in certs}

\* The collection starts with the certificates CERT-<BaseYear>-001 ..
\* CERT-<BaseYear>-<LegacyHigh> of earlier requests, which belong to an admin
\* who issues no request here.  Membership without building the set:
InLegacy(id) ==
  LET n == ParseInt(id.seq)
  IN  id.year = BaseYear /\ n \in 1..LegacyHigh /\ id = CertId(BaseYear, n)

\* The legacy ID the database sorts last (descending sort, first result).
LegacyLatest ==
  CHOOSE s \in {CertId(BaseYear, i) : i \in 1..LegacyHigh} :
    \A j \in 1..LegacyHigh :
      StrLeq(CertId(BaseYear, LegacyHigh + 1 - j).seq, s.seq)

LegacyTop == IF LegacyHigh = 0 THEN {} ELSE {LegacyLatest}

\* Certificate.generateNextId over the IDs the collection holds: the latest
\* of a union is the latest among the parts' latest, so the legacy IDs are
\* represented by LegacyTop.
GenerateNextId(ids, y) ==
  LET cands == {id \in ids : id.year = y}
      latestCert == CHOOSE x \in cands : \A z \in cands : StrLeq(z.seq, x.seq)
      nextNumber == IF cands = {} THEN 1 ELSE ParseInt(latestCert.seq) + 1
  IN  CertId(y, nextNumber)

UniqueIndexAllows_Anything(id) == TRUE

\* The unique index on certificateId.
UniqueIndexAllows(id) == id \notin CertIds /\ ~InLegacy(id)

\* Records inserted so far, and the requests that have yet to insert theirs.
Inserted == nextOid - 1
BeforeSave == {q \in Reqs : reqs[q].pc \in {"validated", "gotId"}}

\* template.placeholders is set and non-empty, with a name and an id entry.
HasPlaceholders(ps) == Len(ps) # 0
HasType(ps, t) == \E i \in 1..Len(ps) : ps[i].type = t
HasRequiredPlaceholders(ps) == HasType(ps, "name") /\ HasType(ps, "id")

CreateGate_AlwaysOk(ps) == "ok"

\* The checks of POST /create on the template it found (lines 37-53).
CreateGate(ps) ==
  IF ~HasPlaceholders(ps) THEN "400 no placeholders"
  ELSE IF ~HasRequiredPlaceholders(ps) THEN "400 name and id"
  ELSE "ok"

PlaceholdersValid_Anything(ps) == TRUE

\* Template schema validator and validateTemplatePlaceholders.
PlaceholdersValid(ps) == Len(ps) = 0 \/ HasRequiredPlaceholders(ps)

Replace(set, old, new) == (set \ {old}) \cup {new}

\* ------------------------------------------------------------------- Init
Init ==
  /\ year = BaseYear
  /\ templates = {}
  /\ certs = {}
  /\ files = {}
  /\ reqs = [r \in Reqs |-> IdleReq]
  /\ nextOid = 1
  /\ lastResp = NoResp
  /\ overlapped = FALSE
  /\ bulk = NoBulk
  /\ downloads = NoDownloads
  /\ mapper = NoMapper

\* The clock passes into the next calendar year.
NewYear ==
  /\ year + 1 \in Years
  /\ year' = year + 1
  /\ lastResp' = NoResp
  /\ UNCHANGED <<templates, certs, files, reqs, nextOid, overlapped, mapper, bulk, downloads>>

\* ------------------------------------------------------ template handlers
\* POST /api/template/upload
UploadTemplateInto(a, name, ids) ==
  /\ Cardinality(templates) + 1 \in ids
  /\ ~\E t \in templates : t.name = name /\ t.owner = a /\ t.isActive
  /\ templates' = templates \cup
       {[id |-> Cardinality(templates) + 1, owner |-> a, name |-> name,
         isActive |-> TRUE, placeholders |-> <<>>,
         dimensions |-> TemplateImage, usageCount |-> 0]}
  /\ lastResp' = NoResp
  /\ UNCHANGED <<year, certs, files, reqs, nextOid, overlapped, mapper, bulk, downloads>>

UploadTemplate(a, name) == UploadTemplateInto(a, name, TemplateIds)

\* POST /api/template/:id/placeholders
SavePlaceholders(a, tid, ps) ==
  /\ PlaceholdersValid(ps)
  /\ \E t \in templates :
       /\ t.id = tid /\ t.owner = a /\ t.isActive
       /\ t.placeholders # ps
       /\ templates' = Replace(templates, t, [t EXCEPT !.placeholders = ps])
  /\ lastResp' = NoResp
  /\ UNCHANGED <<year, certs, files, reqs, nextOid, overlapped, mapper, bulk, downloads>>

\* PUT /api/template/:id with only isActive, and DELETE /api/template/:id
SetTemplateActive(a, tid, active) ==
  /\ \E t \in templates :
       /\ t.id = tid /\ t.owner = a
       /\ t.isActive # active
       /\ templates' = Replace(templates, t, [t EXCEPT !.isActive = active])
  /\ lastResp' = NoResp
  /\ UNCHANGED <<year, certs, files, reqs, nextOid, overlapped, mapper, bulk, downloads>>

\* POST /api/template/:id/placeholders refused by validateTemplatePlaceholders
\* (status 400), and answered 404 when findOne (lines 120-131) finds nothing.
SavePlaceholdersRefused(a, tid, ps) ==
  /\ ~PlaceholdersValid(ps)
  /\ lastResp' = Resp(0, "400 placeholders", "none")
  /\ UNCHANGED <<year, templates, certs, files, reqs, nextOid, overlapped, mapper, bulk, downloads>>

SavePlaceholdersNotFound(a, tid, ps) ==
  /\ PlaceholdersValid(ps)
  /\ ~\E t \in templates : t.id = tid /\ t.owner = a /\ t.isActive
  /\ lastResp' = Resp(0, "404 template", "none")
  /\ UNCHANGED <<year, templates, certs, files, reqs, nextOid, overlapped, mapper, bulk, downloads>>

\* POST /api/template/:id/placeholders with dimensions in the body
SaveLayout(a, tid, ps, dims) ==
  /\ PlaceholdersValid(ps)
  /\ \E t \in templates :
       /\ t.id = tid /\ t.owner = a /\ t.isActive
       /\ t.dimensions # dims
       /\ templates' = Replace(templates, t,
                          [t EXCEPT !.placeholders = ps, !.dimensions = dims])
  /\ lastResp' = NoResp
  /\ UNCHANGED <<year, certs, files, reqs, nextOid, overlapped, mapper, bulk, downloads>>

\* PUT /api/template/:id with a name (lines 297-345)
UpdateTemplate(a, tid, name) ==
  /\ \E t \in templates :
       /\ t.id = tid /\ t.owner = a
       /\ t.name # name
       /\ ~\E o \in templates :
            o.name = name /\ o.owner = a /\ o.id # tid /\ o.isActive
       /\ templates' = Replace(templates, t, [t EXCEPT !.name = name])
  /\ lastResp' = NoResp
  /\ UNCHANGED <<year, certs, files, reqs, nextOid, overlapped, mapper, bulk, downloads>>

SnapshotOf_NoPlaceholders(t) ==
  [name |-> t.name, placeholders |-> <<>>, dimensions |-> t.dimensions]

\* templateSnapshot as POST /create builds it from the template it loaded
\* (lines 63-68).
SnapshotOf(t) ==
  [name |-> t.name, placeholders |-> t.placeholders, dimensions |-> t.dimensions]

\* ------------------------------------------------------- POST /create
\* Each step below runs from one await of the handler to the next.

\* Template.findOne and the placeholder checks (lines 24-53).  A request
\* takes the lowest free slot.
CreateFind(r, a, tid) ==
  /\ reqs[r].pc = "idle"
  /\ \A q \in Reqs : q < r => reqs[q].pc # "idle"
  /\ Inserted + Cardinality(BeforeSave) < MaxCreates
  /\ LET found == {t \in templates : t.id = tid /\ t.owner = a /\ t.isActive}
         t == CHOOSE t \in found : TRUE
     IN  IF found = {}
         THEN /\ lastResp' = Resp(r, "404 template", "none")
              /\ reqs' = reqs
         ELSE IF CreateGate(t.placeholders) # "ok"
         THEN /\ lastResp' = Resp(r, CreateGate(t.placeholders), "none")
              /\ reqs' = reqs
         ELSE /\ lastResp' = NoResp
              /\ reqs' = [reqs EXCEPT ![r] =
                   [IdleReq EXCEPT !.pc = "validated", !.admin = a, !.tid = tid,
                                   !.tmpl = SnapshotOf(t)]]
  /\ overlapped' = (overlapped \/ (reqs' # reqs /\ \E q \in Reqs : reqs[q].pc # "idle"))
  /\ UNCHANGED <<year, templates, certs, files, nextOid, mapper, bulk, downloads>>

\* await Certificate.generateNextId() (line 56)
CreateGenerateId(r) ==
  /\ reqs[r].pc = "validated"
  /\ reqs' = [reqs EXCEPT ![r].pc = "gotId",
                          ![r].doc.certificateId =
                             GenerateNextId(CertIds \cup LegacyTop, year)]
  /\ lastResp' = NoResp
  /\ UNCHANGED <<year, templates, certs, files, nextOid, overlapped, mapper, bulk, downloads>>

\* new Certificate({... status: 'pending' ...}) and the first save (59-80);
\* a duplicate-key error ends the request in the outer catch (139-144).
CreateSave(r) ==
  /\ reqs[r].pc = "gotId"
  /\ LET id == reqs[r].doc.certificateId
     IN  IF UniqueIndexAllows(id)
         THEN /\ certs' = certs \cup
                   {[oid |-> nextOid, certificateId |-> id, status |-> "pending",
                     isActive |-> TRUE, generatedFiles |-> NoFiles,
                     createdBy |-> reqs[r].admin, template |-> reqs[r].tid,
                     snapshot |-> reqs[r].tmpl,
                     downloadCount |-> 0]}
              /\ nextOid' = nextOid + 1
              /\ reqs' = [reqs EXCEPT ![r].pc = "saved",
                                      ![r].doc.oid = nextOid,
                                      ![r].doc.status = "pending"]
              /\ lastResp' = NoResp
         ELSE /\ reqs' = [reqs EXCEPT ![r] = IdleReq]
              /\ lastResp' = Resp(r, "400 duplicate id", "none")
              /\ UNCHANGED <<certs, nextOid>>
  /\ UNCHANGED <<year, templates, files, overlapped, mapper, bulk, downloads>>

CreateIncrementUsage_Skipped(r) ==
  /\ reqs[r].pc = "saved"
  /\ reqs' = [reqs EXCEPT ![r].pc = "counted"]
  /\ lastResp' = NoResp
  /\ UNCHANGED <<year, templates, certs, files, nextOid, overlapped, mapper, bulk, downloads>>

\* await template.incrementUsage() (line 83): $inc on the stored document
CreateIncrementUsage(r) ==
  /\ reqs[r].pc = "saved"
  /\ templates' = {IF t.id = reqs[r].tid
                   THEN [t EXCEPT !.usageCount = @ + 1] ELSE t : t \in templates}
  /\ reqs' = [reqs EXCEPT ![r].pc = "counted"]
  /\ lastResp' = NoResp
  /\ UNCHANGED <<year, certs, files, nextOid, overlapped, mapper, bulk, downloads>>

\* generateCertificate: generatePNG (line 190 of the generator), which writes
\* <certificateId>.png last; a throw is caught by the handler (114-118).
\* placeholderValues and containerDimensions of the request body are first
\* read here, so the request's values are drawn in this step.
CreateRenderPNG(r, pv, cd, decodeOk) ==
  /\ reqs[r].pc = "counted"
  /\ LET out == GeneratePNG(reqs[r].tmpl.placeholders, pv,
                            TemplateImage, cd, decodeOk)
         id == reqs[r].doc.certificateId
     IN  IF out.ok
         THEN /\ files' = files \cup {FileOf(id, "png")}
              /\ reqs' = [reqs EXCEPT ![r].pc = "pngDone", ![r].png = Some(out),
                                      ![r].pv = pv, ![r].cd = cd]
         ELSE /\ files' = files
              /\ reqs' = [reqs EXCEPT ![r].pc = "threw", ![r].png = Some(out),
                                      ![r].pv = pv, ![r].cd = cd,
                                      ![r].doc.status = StatusOf(FALSE),
                                      ![r].doc.generatedFiles = NoFiles]
  /\ lastResp' = NoResp
  /\ UNCHANGED <<year, templates, certs, nextOid, overlapped, mapper, bulk, downloads>>

CreateRenderPDF_AfterThrow(r, decodeOk) ==
  /\ reqs[r].pc \in {"pngDone", "threw"} /\ ~IsDefined(reqs[r].pdf)
  /\ reqs' = [reqs EXCEPT ![r].pc = "threw",
                          ![r].pdf = Some(GeneratePDF(reqs[r].tmpl.placeholders,
                                            reqs[r].pv, TemplateImage,
                                            reqs[r].cd, decodeOk)),
                          ![r].doc.status = StatusOf(FALSE),
                          ![r].doc.generatedFiles = NoFiles]
  /\ lastResp' = NoResp
  /\ UNCHANGED <<year, templates, certs, files, nextOid, overlapped, mapper, bulk, downloads>>

\* generatePDF (line 193), then the handler's lines 94-113 or 114-118.
CreateRenderPDF(r, decodeOk) ==
  /\ reqs[r].pc = "pngDone"
  /\ LET out == GeneratePDF(reqs[r].tmpl.placeholders, reqs[r].pv,
                            TemplateImage, reqs[r].cd, decodeOk)
         id == reqs[r].doc.certificateId
     IN  IF out.ok
         THEN /\ files' = files \cup {FileOf(id, "pdf")}
              /\ reqs' = [reqs EXCEPT ![r].pc = "rendered", ![r].pdf = Some(out),
                                      ![r].doc.status = StatusOf(TRUE),
                                      ![r].doc.generatedFiles = BothFiles(id)]
         ELSE /\ files' = files
              /\ reqs' = [reqs EXCEPT ![r].pc = "threw", ![r].pdf = Some(out),
                                      ![r].doc.status = StatusOf(FALSE),
                                      ![r].doc.generatedFiles = NoFiles]
  /\ lastResp' = NoResp
  /\ UNCHANGED <<year, templates, certs, nextOid, overlapped, mapper, bulk, downloads>>

SavedStatus_AlwaysGenerated(doc) == "generated"

SavedStatus_StillPending(doc) == "pending"

\* The status and generatedFiles the second save writes ($set of the paths
\* the handler modified).
SavedStatus(doc) == doc.status
SavedFiles(doc) == doc.generatedFiles

\* await certificate.save() (line 120) and the response (128-134); a save
\* of a record a bulk delete removed ends in the outer catch (146-149).
CreateFinalSave(r) ==
  /\ reqs[r].pc \in {"rendered", "threw"}
  /\ LET doc == reqs[r].doc
         stored == {c \in certs : c.oid = doc.oid}
     IN  IF stored = {}
         THEN /\ certs' = certs
              /\ lastResp' = Resp(r, "500", "none")
         ELSE /\ certs' = {IF c.oid = doc.oid
                           THEN [c EXCEPT !.status = SavedStatus(doc),
                                          !.generatedFiles = SavedFiles(doc)]
                           ELSE c : c \in certs}
              /\ lastResp' = Resp(r, "201 created", doc.status)
  /\ reqs' = [reqs EXCEPT ![r] = IdleReq]
  /\ UNCHANGED <<year, templates, files, nextOid, overlapped, mapper, bulk, downloads>>

\* ----------------------------------------------------- the generate page
\* response.ok of fetch: the status is in 200..299.
ResponseOk(resp) == resp.code \in {"201 created"}

\* success and message of the body POST /create sends with status 201
\* (lines 128-134).
CreatedBody == [success |-> TRUE, message |-> "Certificate created successfully"]

\* The toast generateCertificate of the generate page shows for a response.
ToastOf(resp) ==
  IF ResponseOk(resp)
  THEN [kind |-> "success", text |-> "Certificate generated successfully!"]
  ELSE [kind |-> "error", text |-> "Failed to generate certificate"]

\* ------------------------------------------------- certificate handlers
\* DELETE /api/certificate/:id and Certificate.archive
Archive(a, oid) ==
  /\ \E c \in certs :
       /\ c.oid = oid /\ c.createdBy = a
       /\ ~(c.status = "archived" /\ ~c.isActive)
       /\ certs' = Replace(certs, c,
                     [c EXCEPT !.status = "archived", !.isActive = FALSE])
  /\ lastResp' = NoResp
  /\ UNCHANGED <<year, templates, files, reqs, nextOid, overlapped, mapper, bulk, downloads>>

\* GET /api/certificate/:id/download/:format serves the file (lines 288-335).
CanDownload(c, a, f) ==
  /\ f \in Formats
  /\ c.createdBy = a /\ c.isActive
  /\ c.status = "generated"
  /\ \E g \in c.generatedFiles : g.format = f
  /\ FileOf(c.certificateId, f) \in files

\* Downloads served so far, over all records.
RECURSIVE SumDownloads(_)
SumDownloads(cs) ==
  IF cs = {} THEN 0
  ELSE LET c == CHOOSE x \in cs : TRUE
       IN  c.downloadCount + SumDownloads(cs \ {c})

\* The served download: incrementDownloadCount, then sendFile.
Download(a, oid, f) ==
  /\ \E c \in certs :
       /\ c.oid = oid
       /\ CanDownload(c, a, f)
       /\ SumDownloads(certs) < MaxDownloads
       /\ certs' = Replace(certs, c, [c EXCEPT !.downloadCount = @ + 1])
  /\ lastResp' = NoResp
  /\ UNCHANGED <<year, templates, files, reqs, nextOid, overlapped, mapper, bulk, downloads>>

BulkDeleteMatches_AnyOwner(a) == {c \in certs : c.isActive}

\* The records deleteMany removes (lines 473-480); isArchived is no field of
\* the schema, so it exists on no record.
BulkDeleteMatches(a) == {c \in certs : c.createdBy = a /\ c.isActive}

ConfirmAccepted_AnyCase(confirmText) ==
  confirmText \in {Some("DELETE ALL CERTIFICATES"), Some("delete all certificates")}

\* confirmText !== 'DELETE ALL CERTIFICATES' (line 408), negated
ConfirmAccepted(confirmText) == confirmText = Some(RequiredText)

\* ConfirmationModal: isConfirmDisabled
IsConfirmDisabled(requiresTextConfirmation, userInput, requiredText) ==
  requiresTextConfirmation /\ userInput # requiredText

\* DELETE /api/certificate/bulk.  The file loop (452-470) reads pdfPath and
\* pngPath, which no record has, and so unlinks nothing.
BulkDelete(a, confirmText) ==
  /\ ConfirmAccepted(confirmText)
  /\ BulkDeleteMatches(a) # {}
  /\ certs' = certs \ BulkDeleteMatches(a)
  /\ lastResp' = NoResp
  /\ UNCHANGED <<year, templates, files, reqs, nextOid, overlapped, mapper, bulk, downloads>>

\* DELETE /api/certificate/bulk refused at line 408 with status 400.
BulkDeleteRefused(a, confirmText) ==
  /\ ~ConfirmAccepted(confirmText)
  /\ lastResp' = Resp(0, "400 confirmation text", "none")
  /\ UNCHANGED <<year, templates, certs, files, reqs, nextOid, overlapped, mapper, bulk, downloads>>

ListCertificates_AnyActivity(a) == {c \in certs : c.createdBy = a}

\* GET /api/certificate with no filter parameters: the records of the query
\* { createdBy, isActive: true } (lines 170-174).
ListCertificates(a) == {c \in certs : c.createdBy = a /\ c.isActive}

\* GET /api/certificate/:id: the records of findOne({ _id, createdBy }).
GetCertificate(a, oid) == {c \in certs : c.oid = oid /\ c.createdBy = a}

\* ------------------------------------------------------------------- Next
Next ==
  \/ NewYear
  \/ \E a \in Uploaders, n \in TemplateNames : UploadTemplate(a, n)
  \/ \E a \in Admins, tid \in TemplateIds, ps \in PlaceholderLists :
       SavePlaceholders(a, tid, ps)
  \/ \E a \in Admins, tid \in TemplateIds, b \in BOOLEAN :
       SetTemplateActive(a, tid, b)
  \/ \E r \in Reqs, a \in Admins, tid \in TemplateIds : CreateFind(r, a, tid)
  \/ \E r \in Reqs : CreateGenerateId(r)
  \/ \E r \in Reqs : CreateSave(r)
  \/ \E r \in Reqs : CreateIncrementUsage(r)
  \/ \E r \in Reqs, b \in CreateBodies, ok \in BOOLEAN :
       CreateRenderPNG(r, b.pv, b.cd, ok)
  \/ \E r \in Reqs, ok \in BOOLEAN : CreateRenderPDF(r, ok)
  \/ \E r \in Reqs : CreateFinalSave(r)
  \/ \E a \in Admins, oid \in 1..MaxCreates : Archive(a, oid)
  \/ \E a \in Admins, oid \in 1..MaxCreates, f \in Formats : Download(a, oid, f)
  \/ \E a \in Admins, t \in ConfirmTexts : BulkDelete(a, t)

Spec == Init /\ [][Next]_vars

\* The bulk deletes refused without any effect on the stored state.
Refusals ==
  \E a \in Admins, t \in ConfirmTexts : BulkDeleteRefused(a, t)

\* The template handlers with every edit a client may post.
TemplateEdits ==
  \/ \E a \in Uploaders, n \in TemplateNames : UploadTemplate(a, n)
  \/ \E a \in Admins, tid \in TemplateIds,
        ps \in PlaceholderLists \cup EditedLists : SavePlaceholders(a, tid, ps)
  \/ \E a \in Admins, tid \in TemplateIds, ps \in PlaceholderLists,
        dims \in PostedDimensions : SaveLayout(a, tid, ps, dims)
  \/ \E a \in Admins, tid \in TemplateIds, b \in BOOLEAN :
       SetTemplateActive(a, tid, b)
  \/ \E a \in Admins, tid \in TemplateIds, n \in UpdateNames :
       UpdateTemplate(a, tid, n)

\* POST /create requests handled one after the other.
SequentialCreates ==
  \/ \E r \in {1}, a \in Admins, tid \in TemplateIds : CreateFind(r, a, tid)
  \/ \E r \in {1} : CreateGenerateId(r)
  \/ \E r \in {1} : CreateSave(r)
  \/ \E r \in {1} : CreateIncrementUsage(r)
  \/ \E r \in {1}, b \in CreateBodies, ok \in BOOLEAN :
       CreateRenderPNG(r, b.pv, b.cd, ok)
  \/ \E r \in {1}, ok \in BOOLEAN : CreateRenderPDF(r, ok)
  \/ \E r \in {1} : CreateFinalSave(r)

TemplateNext == TemplateEdits \/ SequentialCreates

\* Requests that name a record of another admin and are answered 404:
\* DELETE /api/certificate/:id, GET /api/certificate/:id/download/:format,
\* and PUT or DELETE /api/template/:id.
ArchiveNotFound(a, oid) ==
  /\ \E c \in certs : c.oid = oid /\ c.createdBy # a
  /\ ~\E c \in certs : c.oid = oid /\ c.createdBy = a
  /\ lastResp' = Resp(0, "404 certificate", "none")
  /\ UNCHANGED <<year, templates, certs, files, reqs, nextOid, overlapped, mapper, bulk, downloads>>

DownloadNotFound(a, oid, f) ==
  /\ f \in Formats
  /\ \E c \in certs : c.oid = oid /\ c.createdBy # a
  /\ ~\E c \in certs : c.oid = oid /\ c.createdBy = a /\ c.isActive
  /\ lastResp' = Resp(0, "404 certificate", "none")
  /\ UNCHANGED <<year, templates, certs, files, reqs, nextOid, overlapped, mapper, bulk, downloads>>

TemplateNotFound(a, tid) ==
  /\ \E t \in templates : t.id = tid /\ t.owner # a
  /\ ~\E t \in templates : t.id = tid /\ t.owner = a
  /\ lastResp' = Resp(0, "404 template", "none")
  /\ UNCHANGED <<year, templates, certs, files, reqs, nextOid, overlapped, mapper, bulk, downloads>>

NotFounds ==
  \/ \E a \in Admins, oid \in 1..MaxCreates : ArchiveNotFound(a, oid)
  \/ \E a \in Admins, oid \in 1..MaxCreates, f \in Formats :
       DownloadNotFound(a, oid, f)
  \/ \E a \in Admins, tid \in TemplateIds : TemplateNotFound(a, tid)
  \/ \E a \in Admins, tid \in TemplateIds, ps \in PlaceholderLists :
       SavePlaceholdersNotFound(a, tid, ps)

\* The handlers of both admins, POST /create requests handled one after the
\* other.
SequentialNext ==
  \/ NewYear
  \/ \E a \in Uploaders, n \in TemplateNames : UploadTemplate(a, n)
  \/ \E a \in Admins, tid \in TemplateIds, ps \in PlaceholderLists :
       SavePlaceholders(a, tid, ps)
  \/ \E a \in Admins, tid \in TemplateIds, b \in BOOLEAN :
       SetTemplateActive(a, tid, b)
  \/ SequentialCreates
  \/ \E a \in Admins, oid \in 1..MaxCreates : Archive(a, oid)
  \/ \E a \in Admins, oid \in 1..MaxCreates, f \in Formats : Download(a, oid, f)
  \/ \E a \in Admins, t \in ConfirmTexts : BulkDelete(a, t)

\* These handlers together with the bulk deletes they refuse.
FullNext == SequentialNext \/ Refusals

FullSpec == Init /\ [][FullNext]_vars

\* The steps of slot r's POST /create after Template.findOne: each await of
\* the handler resolves, so a request that has started keeps taking them.
CreateSteps(r) ==
  \/ CreateGenerateId(r)
  \/ CreateSave(r)
  \/ CreateIncrementUsage(r)
  \/ \E b \in CreateBodies, ok \in BOOLEAN : CreateRenderPNG(r, b.pv, b.cd, ok)
  \/ \E ok \in BOOLEAN : CreateRenderPDF(r, ok)
  \/ CreateFinalSave(r)

LiveSpec ==
  Init /\ [][SequentialNext]_vars /\ \A r \in {1} : WF_vars(CreateSteps(r))

\* These handlers together with the requests they answer 404.
IsolationNext == SequentialNext \/ NotFounds

IsolationSpec == Init /\ [][IsolationNext]_vars

\* The template handlers alone, for uploads of either admin, with the
\* placeholder saves they refuse.
PlaceholderRefusals ==
  \E a \in Admins, tid \in TemplateIds, ps \in PlaceholderLists \cup EditedLists :
    \/ SavePlaceholdersRefused(a, tid, ps)
    \/ SavePlaceholdersNotFound(a, tid, ps)

PlaceholderNext ==
  \/ TemplateEdits
  \/ \E a \in Admins, n \in TemplateNames : UploadTemplate(a, n)
  \/ PlaceholderRefusals

PlaceholderSpec == Init /\ [][PlaceholderNext]_vars

\* The service in a year in which no certificate has been created yet (the
\* state Init reaches by NewYear).
TemplateInit ==
  /\ year = BaseYear + 1
  /\ templates = {}
  /\ certs = {}
  /\ files = {}
  /\ reqs = [r \in Reqs |-> IdleReq]
  /\ nextOid = 1
  /\ lastResp = NoResp
  /\ overlapped = FALSE
  /\ bulk = NoBulk
  /\ downloads = NoDownloads
  /\ mapper = NoMapper

TemplateSpec == TemplateInit /\ [][TemplateNext]_vars

\* ------------------------------------------- the renderers on drawn inputs
MapperImages ==
  {[width |-> 1000, height |-> 600], [width |-> 800, height |-> 600],
   [width |-> 600, height |-> 800]}

MapperSides == {Undefined, Some(0), Some(480), Some(600), Some(800), Some(1000)}

MapperContainers ==
  {Undefined} \cup {Some([width |-> w, height |-> h]) :
                      w \in MapperSides, h \in MapperSides}

MapperPlaceholderLists ==
  {<<NameP, IdP>>,
   <<[type |-> "id", x |-> 30, y |-> 70, fontSize |-> 8],
     [type |-> "name", x |-> 400, y |-> 0, fontSize |-> 200]>>}

MapperInit ==
  /\ year = BaseYear
  /\ templates = {}
  /\ certs = {}
  /\ files = {}
  /\ reqs = [r \in Reqs |-> IdleReq]
  /\ nextOid = 1
  /\ lastResp = NoResp
  /\ overlapped = FALSE
  /\ bulk = NoBulk
  /\ downloads = NoDownloads
  /\ \E img \in MapperImages, cd \in MapperContainers,
        ps \in MapperPlaceholderLists, pv \in ValueMaps, ok \in BOOLEAN :
       mapper = [img |-> img, cd |-> cd, placeholders |-> ps, pv |-> pv,
                 decodeOk |-> ok, png |-> Undefined, pdf |-> Undefined,
                 status |-> "pending"]

\* generateCertificate on the drawn inputs: generatePNG, then generatePDF
\* unless generatePNG threw, then the handler's status.
MapperPNG ==
  /\ ~IsDefined(mapper.png)
  /\ mapper' = [mapper EXCEPT !.png =
       Some(GeneratePNG(mapper.placeholders, mapper.pv, mapper.img, mapper.cd,
                        mapper.decodeOk))]
  /\ UNCHANGED mainVars

MapperPDF ==
  /\ IsDefined(mapper.png) /\ Val(mapper.png).ok
  /\ ~IsDefined(mapper.pdf)
  /\ mapper' = [mapper EXCEPT !.pdf =
       Some(GeneratePDF(mapper.placeholders, mapper.pv, mapper.img, mapper.cd,
                        mapper.decodeOk))]
  /\ UNCHANGED mainVars

MapperFinish ==
  /\ mapper.status = "pending"
  /\ \/ IsDefined(mapper.png) /\ ~Val(mapper.png).ok
     \/ IsDefined(mapper.pdf)
  /\ mapper' = [mapper EXCEPT !.status =
       StatusOf(Val(mapper.png).ok /\ IsDefined(mapper.pdf) /\ Val(mapper.pdf).ok)]
  /\ UNCHANGED mainVars

MapperNext == MapperPNG \/ MapperPDF \/ MapperFinish

MapperSpec == MapperInit /\ [][MapperNext]_vars

\* ------------------------------------------------ font substitution tables
\* The keys of fontMap.canvas and fontMap.pdf (the two tables have the same
\* keys), by the comment group they are listed under.
SansFamilies ==
  {"Inter", "Roboto", "Open Sans", "Lato", "Montserrat", "Source Sans Pro",
   "Raleway", "Ubuntu", "Nunito", "Poppins", "Oswald", "Mukti", "Fira Sans",
   "PT Sans", "Dosis", "Quicksand", "Work Sans", "Rubik", "Barlow", "Oxygen"}

SerifFamilies ==
  {"Playfair Display", "Merriweather", "Lora", "PT Serif", "Crimson Text",
   "Libre Baskerville", "Source Serif Pro", "Cormorant Garamond",
   "EB Garamond", "Vollkorn", "Bitter", "Arvo", "Rokkitt", "Alegreya", "Cardo"}

MonoFamilies ==
  {"Fira Code", "Source Code Pro", "JetBrains Mono", "Roboto Mono",
   "Ubuntu Mono", "Space Mono", "Inconsolata", "Anonymous Pro"}

DisplayFamilies ==
  {"Dancing Script", "Pacifico", "Lobster", "Righteous", "Fredoka One",
   "Comfortaa", "Kalam", "Caveat", "Satisfy", "Great Vibes", "Amatic SC",
   "Bangers"}

SystemFamilies ==
  {"Arial", "Times New Roman", "Helvetica", "Georgia", "Verdana", "Courier New"}

FontMapKeys ==
  SansFamilies \cup SerifFamilies \cup MonoFamilies \cup DisplayFamilies
    \cup SystemFamilies

\* fontMap.canvas
CanvasFontMap ==
  [ff \in FontMapKeys |->
     CASE ff \in SansFamilies \cup DisplayFamilies -> "Arial"
       [] ff \in SerifFamilies -> "Times New Roman"
       [] ff \in MonoFamilies -> "Courier New"
       [] ff = "Helvetica" -> "Arial"
       [] OTHER -> ff]

\* fontMap.pdf
PdfFontMap ==
  [ff \in FontMapKeys |->
     CASE ff \in SansFamilies \cup DisplayFamilies -> "Helvetica"
       [] ff \in SerifFamilies -> "Times-Roman"
       [] ff \in MonoFamilies -> "Courier"
       [] ff \in {"Arial", "Helvetica", "Verdana"} -> "Helvetica"
       [] ff \in {"Times New Roman", "Georgia"} -> "Times-Roman"
       [] OTHER -> "Courier"]

\* The tables are object literals: a bracket lookup of a name that is not an
\* own key still finds the properties every object inherits.
InheritedKeys ==
  {"constructor", "toString", "toLocaleString", "valueOf", "hasOwnProperty",
   "isPrototypeOf", "propertyIsEnumerable", "__proto__"}

\* What the lookup of an inherited name yields: a function or the prototype
\* object, never a font name; all of them are truthy.
InheritedValue(ff) ==
  IF ff = "__proto__" THEN "[object Object]" ELSE "[function]"

\* this.fontMap[type][fontFamily]
FontMapLookup(table, ff) ==
  IF ff \in DOMAIN table THEN Some(table[ff])
  ELSE IF ff \in InheritedKeys THEN Some(InheritedValue(ff))
  ELSE Undefined

\* getSystemFont(fontFamily, type)
GetSystemFont(ff, type) ==
  LET found == FontMapLookup(IF type = "pdf" THEN PdfFontMap ELSE CanvasFontMap, ff)
  IN IF IsDefined(found) THEN Val(found)
     ELSE IF type = "pdf" THEN "Helvetica" ELSE "Arial"

\* placeholder.fontFamily || 'Arial'
FontFamilyOf(ff) == IF ff = "" THEN "Arial" ELSE ff

\* Family names an editor can store that neither table lists.
UnlistedFamilies == {"", "Comic Sans MS", "Impact", "inter", "Roboto Slab"}

FontFamilies == FontMapKeys \cup InheritedKeys \cup UnlistedFamilies

NoFont == "(unset)"

FontInit ==
  /\ year = BaseYear
  /\ templates = {}
  /\ certs = {}
  /\ files = {}
  /\ reqs = [r \in Reqs |-> IdleReq]
  /\ nextOid = 1
  /\ lastResp = NoResp
  /\ overlapped = FALSE
  /\ bulk = NoBulk
  /\ downloads = NoDownloads
  /\ \E ff \in FontFamilies :
       mapper = [fontFamily |-> ff, canvas |-> NoFont, pdf |-> NoFont]

\* generatePNG's font selection for the placeholder
FontCanvas ==
  /\ mapper.canvas = NoFont
  /\ mapper' = [mapper EXCEPT !.canvas =
       GetSystemFont(FontFamilyOf(mapper.fontFamily), "canvas")]
  /\ UNCHANGED mainVars

\* generatePDF's font selection for the placeholder
FontPDF ==
  /\ mapper.canvas # NoFont /\ mapper.pdf = NoFont
  /\ mapper' = [mapper EXCEPT !.pdf =
       GetSystemFont(FontFamilyOf(mapper.fontFamily), "pdf")]
  /\ UNCHANGED mainVars

FontNext == FontCanvas \/ FontPDF

FontSpec == FontInit /\ [][FontNext]_vars

\* The template handlers that set names and activity, over three templates.
NamedTemplateIds == {1, 2, 3}

NameNext ==
  \/ \E a \in Admins, n \in UpdateNames : UploadTemplateInto(a, n, NamedTemplateIds)
  \/ \E a \in Admins, tid \in NamedTemplateIds, b \in BOOLEAN :
       SetTemplateActive(a, tid, b)
  \/ \E a \in Admins, tid \in NamedTemplateIds, n \in UpdateNames :
       UpdateTemplate(a, tid, n)

NameSpec == Init /\ [][NameNext]_vars

\* ---------------------------------------------------- POST /bulk-download
\* The records the collection may hold when a bulk download arrives: pending
\* no more, owned by either admin, archived or not, and for each record its
\* two output files on disk or removed from it.
StoredStatuses == {"generated", "failed", "archived"}

StoredRecord(oid, a, st) ==
  [oid |-> oid, certificateId |-> CertId(BaseYear, oid), status |-> st,
   isActive |-> (st # "archived"),
   generatedFiles |-> IF st = "failed" THEN NoFiles
                      ELSE BothFiles(CertId(BaseYear, oid)),
   createdBy |-> a, template |-> 1, snapshot |-> NoTemplate, downloadCount |-> 0]

StoredOids == {1, 2}

StoredCollections ==
  {{StoredRecord(o, own[o], st[o]) : o \in StoredOids} :
     own \in [StoredOids -> Admins], st \in [StoredOids -> StoredStatuses]}

\* The WebSocket connections of the service's clients map.
ClientSets ==
  {{[id |-> 1, adminId |-> "a1", open |-> TRUE],
    [id |-> 2, adminId |-> "a2", open |-> TRUE],
    [id |-> 3, adminId |-> "a1", open |-> FALSE]},
   {[id |-> 2, adminId |-> "a2", open |-> TRUE]}}

\* certificateIds and format of the request body.
BulkSelections == {{1}, {1, 2}, {3}}
BulkFormats == {"pdf", "png", "jpg"}

Recipients_AnyAdmin(clients, adminId) ==
  {cl.id : cl \in {c \in clients : c.open}}

\* sendProgressUpdate: the connections the message is sent to.
Recipients(clients, adminId) ==
  {cl.id : cl \in {c \in clients : c.adminId = adminId /\ c.open}}

\* Math.round((processed / total) * 100)
Percentage(processed, total) == (200 * processed + total) \div (2 * total)

\* One message of sendBulkDownloadProgress / Complete / Error.
Event(op, status, total, processed, added, pct, zip, msg, to) ==
  [operation |-> op, status |-> status, total |-> total,
   processed |-> processed, added |-> added, percentage |-> pct,
   zipFileName |-> zip, error |-> msg, to |-> to]

\* certificate.pdfPath / certificate.pngPath: the schema has no such path
\* (the files are recorded under generatedFiles), so the read is undefined.
PathOf(c, f) == Undefined

\* The found records in the order the query returns them.
RECURSIVE InOidOrder(_)
InOidOrder(cs) ==
  IF cs = {} THEN <<>>
  ELSE LET c == CHOOSE x \in cs : \A y \in cs : x.oid <= y.oid
       IN  <<c>> \o InOidOrder(cs \ {c})

\* Certificate.find (lines 643-647)
BulkFound(a, ids) ==
  {c \in certs : c.oid \in ids /\ c.createdBy = a /\ c.isActive}

BulkInit ==
  /\ year = BaseYear
  /\ templates = {}
  /\ certs \in StoredCollections
  /\ \E onDisk \in SUBSET StoredOids :
       files = UNION {BothFiles(CertId(BaseYear, o)) : o \in onDisk}
  /\ reqs = [r \in Reqs |-> IdleReq]
  /\ nextOid = 3
  /\ lastResp = NoResp
  /\ overlapped = FALSE
  /\ mapper = NoMapper
  /\ \E cls \in ClientSets :
       bulk = [pc |-> "none", admin |-> "", ids |-> {}, format |-> "",
               clients |-> cls,
               queue |-> <<>>, total |-> 0, processed |-> 0, added |-> 0,
               events |-> <<>>]
  /\ downloads = NoDownloads

\* The request up to the loop (lines 618-693): the checks of the body, the
\* query, and the started event.
BulkDownloadStart(a, ids, f) ==
  /\ bulk.pc = "none"
  /\ IF f \notin Formats
     THEN /\ bulk' = [bulk EXCEPT !.pc = "done", !.admin = a, !.ids = ids,
                                !.format = f]
          /\ lastResp' = Resp(0, "400 format", "none")
     ELSE IF BulkFound(a, ids) = {}
     THEN /\ bulk' = [bulk EXCEPT !.pc = "done", !.admin = a, !.ids = ids,
                                !.format = f]
          /\ lastResp' = Resp(0, "404 certificate", "none")
     ELSE /\ bulk' = [bulk EXCEPT
                 !.pc = "loop", !.admin = a, !.ids = ids, !.format = f,
                 !.queue = InOidOrder(BulkFound(a, ids)),
                 !.total = Cardinality(BulkFound(a, ids)),
                 !.events = <<Event("bulk_download", "started",
                                    Cardinality(BulkFound(a, ids)), 0, 0,
                                    Undefined, Undefined, Undefined,
                                    Recipients(bulk.clients, a))>>]
          /\ lastResp' = NoResp
  /\ UNCHANGED <<year, templates, certs, files, reqs, nextOid, overlapped, mapper,
                 downloads>>

\* One pass of the loop (lines 698-753).  The $inc of downloadCount (742-745)
\* names a path the schema does not have and changes no record.
BulkDownloadProcess ==
  /\ bulk.pc = "loop" /\ bulk.queue # <<>>
  /\ LET c == Head(bulk.queue)
         filePath == PathOf(c, bulk.format)
     IN  IF ~IsDefined(filePath) \/ FileOf(c.certificateId, bulk.format) \notin files
         THEN bulk' = [bulk EXCEPT !.queue = Tail(@), !.processed = @ + 1]
         ELSE bulk' = [bulk EXCEPT
                 !.queue = Tail(@), !.processed = @ + 1, !.added = @ + 1,
                 !.events = Append(@,
                    Event("bulk_download", "processing", bulk.total,
                          bulk.processed + 1, bulk.added + 1,
                          Some(Percentage(bulk.processed + 1, bulk.total)),
                          Undefined, Undefined,
                          Recipients(bulk.clients, bulk.admin)))]
  /\ lastResp' = NoResp
  /\ UNCHANGED <<year, templates, certs, files, reqs, nextOid, overlapped, mapper,
                 downloads>>

\* After the loop (lines 755-801): nothing added ends the request with 404;
\* otherwise the finalizing event, archive.finalize(), and the completed
\* event, or the error event of the outer catch when finalize rejects.
BulkDownloadFinish(finalizeOk) ==
  /\ bulk.pc = "loop" /\ bulk.queue = <<>>
  /\ LET to == Recipients(bulk.clients, bulk.admin)
         finalizing == Event("bulk_download", "finalizing", bulk.total,
                             bulk.processed, bulk.added, Some(95),
                             Undefined, Undefined, to)
         completed == Event("bulk_download_complete", "completed", bulk.total,
                            bulk.processed, bulk.added, Some(100),
                            Some("certificates.zip"), Undefined, to)
         failed == Event("bulk_download_error", "error", bulk.total,
                         bulk.processed, bulk.added, Undefined,
                         Undefined, Some("finalize"), to)
     IN  IF bulk.added = 0
         THEN /\ bulk' = [bulk EXCEPT !.pc = "done"]
              /\ lastResp' = Resp(0, "404 no files", "none")
         ELSE /\ bulk' = [bulk EXCEPT !.pc = "done",
                     !.events = @ \o <<finalizing,
                                       IF finalizeOk THEN completed ELSE failed>>]
              /\ lastResp' = IF finalizeOk THEN Resp(0, "200 zip", "none")
                             ELSE Resp(0, "500", "none")
  /\ UNCHANGED <<year, templates, certs, files, reqs, nextOid, overlapped, mapper,
                 downloads>>

BulkNext ==
  \/ \E a \in Admins, ids \in BulkSelections, f \in BulkFormats :
       BulkDownloadStart(a, ids, f)
  \/ BulkDownloadProcess
  \/ \E ok \in BOOLEAN : BulkDownloadFinish(ok)

BulkSpec == BulkInit /\ [][BulkNext]_vars

\* ------------------------------------- GET /:id/download/:format, by await
DownloadSlots == {1, 2}
DownloadOids == StoredOids \cup {3}

IdleDownload == [pc |-> "idle", admin |-> "", oid |-> 0, seen |-> 0]

Served == LET n == downloads.served IN n[1] + n[2] + n[3]

DownloadInit ==
  /\ year = BaseYear
  /\ templates = {}
  /\ certs \in StoredCollections
  /\ \E onDisk \in SUBSET StoredOids :
       files = UNION {BothFiles(CertId(BaseYear, o)) : o \in onDisk}
  /\ reqs = [r \in Reqs |-> IdleReq]
  /\ nextOid = 3
  /\ lastResp = NoResp
  /\ overlapped = FALSE
  /\ mapper = NoMapper
  /\ bulk = NoBulk
  /\ downloads = [slots |-> [s \in DownloadSlots |-> IdleDownload],
                  served |-> [o \in DownloadOids |-> 0]]

\* The answer of the handler's checks (lines 281-325), "ok" when it goes on
\* to incrementDownloadCount.
DownloadCheck(a, oid, f) ==
  LET found == {c \in certs : c.oid = oid /\ c.createdBy = a /\ c.isActive}
      c == CHOOSE x \in found : TRUE
  IN  IF f \notin Formats THEN "400 format"
      ELSE IF found = {} THEN "404 certificate"
      ELSE IF c.status # "generated" THEN "400 not ready"
      ELSE IF ~\E g \in c.generatedFiles : g.format = f THEN "404 no file"
      ELSE IF FileOf(c.certificateId, f) \notin files THEN "404 not on disk"
      ELSE "ok"

\* The request up to await certificate.incrementDownloadCount() (line 328).
\* A request takes the lowest free slot.
DownloadFind(s, a, oid, f) ==
  /\ downloads.slots[s].pc = "idle"
  /\ \A q \in DownloadSlots : q < s => downloads.slots[q].pc # "idle"
  /\ IF DownloadCheck(a, oid, f) # "ok"
     THEN /\ lastResp' = Resp(0, DownloadCheck(a, oid, f), "none")
          /\ downloads' = downloads
     ELSE /\ Served + Cardinality({q \in DownloadSlots :
                                     downloads.slots[q].pc # "idle"}) < MaxServed
          /\ lastResp' = NoResp
          /\ downloads' = [downloads EXCEPT !.slots[s] =
               [pc |-> "found", admin |-> a, oid |-> oid,
                seen |-> (CHOOSE c \in certs : c.oid = oid).downloadCount]]
  /\ UNCHANGED <<year, templates, certs, files, reqs, nextOid, overlapped, mapper,
                 bulk>>

DownloadIncrement_FromLoaded(s) ==
  /\ downloads.slots[s].pc = "found"
  /\ certs' = {IF c.oid = downloads.slots[s].oid
               THEN [c EXCEPT !.downloadCount = downloads.slots[s].seen + 1]
               ELSE c : c \in certs}
  /\ downloads' = [downloads EXCEPT !.slots[s] = IdleDownload,
                                    !.served[downloads.slots[s].oid] = @ + 1]
  /\ lastResp' = Resp(0, "200 file", "none")
  /\ UNCHANGED <<year, templates, files, reqs, nextOid, overlapped, mapper, bulk>>

\* incrementDownloadCount: $inc on the stored document, then sendFile
\* (lines 328-336).
DownloadIncrement(s) ==
  /\ downloads.slots[s].pc = "found"
  /\ certs' = {IF c.oid = downloads.slots[s].oid
               THEN [c EXCEPT !.downloadCount = @ + 1]
               ELSE c : c \in certs}
  /\ downloads' = [downloads EXCEPT !.slots[s] = IdleDownload,
                                    !.served[downloads.slots[s].oid] = @ + 1]
  /\ lastResp' = Resp(0, "200 file", "none")
  /\ UNCHANGED <<year, templates, files, reqs, nextOid, overlapped, mapper, bulk>>

\* Downloads of both admins, overlapping one another and archives.
DownloadNext ==
  \/ \E s \in DownloadSlots, a \in Admins, oid \in DownloadOids, f \in BulkFormats :
       DownloadFind(s, a, oid, f)
  \/ \E s \in DownloadSlots : DownloadIncrement(s)
  \/ \E a \in Admins, oid \in StoredOids : Archive(a, oid)

DownloadSpec == DownloadInit /\ [][DownloadNext]_vars

\* ================================================= orchestrator properties
\* The stored record of ObjectId oid before and after a step.
Stored(oid) == {c \in certs : c.oid = oid}
StoredAfter(oid) == {c \in certs' : c.oid = oid}

\* Slot r's request performs its second save in this step.
SecondSave(r) == reqs[r].pc \in {"rendered", "threw"} /\ reqs'[r].pc = "idle"

BothReturned(q) ==
  /\ IsDefined(q.png) /\ Val(q.png).ok
  /\ IsDefined(q.pdf) /\ Val(q.pdf).ok

\* C1: a record is created with status pending; the create operation changes
\* a stored status only from pending, to generated only when both renderers
\* returned and to failed when the pipeline threw; no step of any operation
\* moves a failed record to generated.
C1_Step ==
  /\ \A c \in certs' : Stored(c.oid) = {} => c.status = "pending"
  /\ \A r \in Reqs :
       SecondSave(r) =>
         \A c \in Stored(reqs[r].doc.oid), d \in StoredAfter(reqs[r].doc.oid) :
           d.status # c.status =>
             /\ c.status = "pending"
             /\ \/ d.status = "generated" /\ BothReturned(reqs[r])
                \/ d.status = "failed" /\ ~BothReturned(reqs[r])
  /\ \A c \in certs :
       c.status = "failed" =>
         \A d \in StoredAfter(c.oid) : d.status # "generated"

C1_StatusLifecycle == [][C1_Step]_vars

\* C2: in every reachable state a generated certificate has file metadata
\* for both pdf and png and a failed one has none; and a download is served
\* only for a certificate whose status is generated.
C2_FilesMatchStatus ==
  \A c \in certs :
    /\ c.status = "generated" =>
         {g.format : g \in c.generatedFiles} = {"pdf", "png"}
    /\ c.status = "failed" => c.generatedFiles = {}

C2_DownloadStep ==
  \A c \in certs :
    \A d \in StoredAfter(c.oid) :
      d.downloadCount # c.downloadCount => c.status = "generated"

C2_GeneratedOnly == []C2_FilesMatchStatus /\ [][C2_DownloadStep]_vars

C2_Witness ==
  /\ \E c \in certs :
       /\ c.status = "failed"
       /\ c.generatedFiles = {}
       /\ FileOf(c.certificateId, "png") \in files
       /\ c.downloadCount = 0
  /\ \E d \in certs : d.status = "generated" /\ d.downloadCount > 0

\* C3: a create request against a template whose placeholder list is empty
\* or lacks a name or an id placeholder is rejected before rendering: it is
\* assigned no ID, persists no record, leaves the usage counter alone and
\* invokes no renderer.
NameAndId(ps) ==
  /\ \E i \in 1..Len(ps) : ps[i].type = "name"
  /\ \E i \in 1..Len(ps) : ps[i].type = "id"

GateLists == {<<>>, <<NameP>>, <<IdP>>, <<IdP, IdP>>, <<NameP, IdP>>, <<IdP, NameP>>}

GateRejections == {"400 no placeholders", "400 name and id"}

C3_Step ==
  /\ \A ps \in GateLists : (CreateGate(ps) \notin GateRejections) <=> NameAndId(ps)
  /\ \A r \in Reqs :
       (reqs[r].pc = "idle" /\ reqs'[r].pc # "idle") =>
         \E t \in templates :
           /\ t.id = reqs'[r].tid
           /\ t.placeholders = reqs'[r].tmpl.placeholders
           /\ NameAndId(t.placeholders)
  /\ \A r \in Reqs : reqs'[r].pc # "idle" => NameAndId(reqs'[r].tmpl.placeholders)
  /\ \A c \in certs' : NameAndId(c.snapshot.placeholders)
  /\ lastResp'.code \in GateRejections =>
       UNCHANGED <<certs, templates, files, reqs, nextOid>>

C3_ValidationGate == [][C3_Step]_vars

C3_Witness ==
  /\ lastResp.code = "400 no placeholders"
  /\ \E t \in templates : t.isActive /\ t.placeholders = <<>> /\ t.usageCount = 0
  /\ certs = {} /\ files = {} /\ nextOid = 1
  /\ \A r \in Reqs : reqs[r].pc = "idle"

\* C4: under every interleaving of create requests no two stored records
\* share a certificateId; a request whose save collides on the ID gets an
\* error response, stores no record, leaves the usage counter and the files
\* alone and ends without another attempt.
C4_UniqueIds ==
  /\ \A c \in certs, d \in certs : c.certificateId = d.certificateId => c = d
  /\ \A c \in certs : ~InLegacy(c.certificateId)

C4_CollisionStep ==
  \A r \in Reqs :
    ( /\ reqs[r].pc = "gotId" /\ reqs'[r].pc # "gotId"
      /\ \/ reqs[r].doc.certificateId \in CertIds
         \/ InLegacy(reqs[r].doc.certificateId) )
    => /\ lastResp'.code = "400 duplicate id"
       /\ reqs'[r] = IdleReq
       /\ UNCHANGED <<certs, templates, files, nextOid>>

C4_NoSharedId == []C4_UniqueIds /\ [][C4_CollisionStep]_vars

C4_Witness ==
  /\ lastResp.code = "400 duplicate id"
  /\ Cardinality(certs) = 1 /\ nextOid = 2
  /\ \A c \in certs : c.certificateId = CertId(BaseYear + 1, 1)
  /\ \A t \in templates : t.usageCount <= 1

\* C5: with no other request in flight and no record deleted, the first
\* create of a year is assigned CERT-<year>-001 and every later one the
\* year's previous sequence number plus one, padded to three digits.
SeqsOfYear(y) ==
  {ParseInt(id.seq) : id \in {x \in CertIds : x.year = y}}
    \cup (IF y = BaseYear /\ LegacyHigh > 0 THEN {LegacyHigh} ELSE {})

PreviousSeq(y) ==
  IF SeqsOfYear(y) = {} THEN 0
  ELSE CHOOSE n \in SeqsOfYear(y) : \A m \in SeqsOfYear(y) : m <= n

C5_Step ==
  \A r \in Reqs :
    ( /\ reqs[r].pc = "validated" /\ reqs'[r].pc = "gotId"
      /\ ~overlapped
      /\ \A q \in Reqs \ {r} : reqs[q].pc = "idle"
      /\ Cardinality(certs) = Inserted )
    => /\ reqs'[r].doc.certificateId.year = year
       /\ reqs'[r].doc.certificateId.seq =
            PadStart(ToDigits(PreviousSeq(year) + 1), 3)
       /\ Len(reqs'[r].doc.certificateId.seq) >= 3

C5_SequentialIds == [][C5_Step]_vars

\* The records a step archives: those whose isActive it turns to FALSE.
Archived(c) == \E d \in StoredAfter(c.oid) : c.isActive /\ ~d.isActive

Hidden(c) ==
  /\ c \notin ListCertificates(c.createdBy)
  /\ \A f \in Formats : ~CanDownload(c, c.createdBy, f)
  /\ c \in GetCertificate(c.createdBy, c.oid)

\* C11: archiving sets status archived and isActive false and keeps the
\* record: the number of stored records is unchanged, and from then on the
\* record is in no default listing and no download, but the single read of
\* its owner still returns it.
C11_Step ==
  \A c \in certs :
    Archived(c) =>
      /\ Cardinality(certs') = Cardinality(certs)
      /\ \A d \in StoredAfter(c.oid) :
           /\ d = [c EXCEPT !.status = "archived", !.isActive = FALSE]
           /\ d \notin {x \in certs' : x.createdBy = d.createdBy /\ x.isActive}

C11_Hidden == \A c \in certs : ~c.isActive => Hidden(c)

C11_ArchiveKeepsRecord == []C11_Hidden /\ [][C11_Step]_vars

C11_Witness ==
  \E c \in certs :
    /\ c.status = "archived" /\ ~c.isActive
    /\ c.generatedFiles = BothFiles(c.certificateId)
    /\ \A f \in Formats : FileOf(c.certificateId, f) \in files
    /\ ListCertificates(c.createdBy) = {}
    /\ GetCertificate(c.createdBy, c.oid) = {c}

\* What a user may have typed into the confirmation box.
UserInputs ==
  {"", RequiredText, "delete all certificates", "DELETE ALL CERTIFICATES "}

\* C12: a bulk delete whose confirmation text is not exactly DELETE ALL
\* CERTIFICATES (absent, other case, extra blank) is rejected and changes no
\* certificate record and no generated file; the confirm button of the
\* dialog is disabled unless the typed text equals the required text.
C12_Step ==
  /\ \A a \in Admins, t \in ConfirmTexts :
       ( /\ t # Some("DELETE ALL CERTIFICATES")
         /\ BulkDelete(a, t) \/ BulkDeleteRefused(a, t) ) =>
         /\ lastResp'.code = "400 confirmation text"
         /\ UNCHANGED <<certs, files>>
  /\ \A u \in UserInputs :
       IsConfirmDisabled(TRUE, u, "DELETE ALL CERTIFICATES")
         <=> (u # "DELETE ALL CERTIFICATES")

C12_WrongTextRejected == [][C12_Step]_vars

C12_Witness ==
  /\ lastResp.code = "400 confirmation text"
  /\ \E c \in certs :
       /\ c.isActive /\ c.status = "generated"
       /\ \A f \in Formats : FileOf(c.certificateId, f) \in files

\* The records a step removes from the collection.
Removed == {c \in certs : StoredAfter(c.oid) = {}}

\* C13: a bulk delete with the exact phrase removes every active record of
\* the requesting admin and deletes the PDF and PNG file of each removed
\* record, so that no generated file of a removed record remains.
C13_Step ==
  \A c \in Removed :
    /\ \A d \in certs : (d.createdBy = c.createdBy /\ d.isActive) => d \in Removed
    /\ \A g \in c.generatedFiles : FileOf(c.certificateId, g.format) \notin files'

C13_BulkDeleteRemovesFiles == [][C13_Step]_vars

\* C14: the name, placeholders and dimensions of a certificate's
\* templateSnapshot are the template's values as the create request read
\* them, and no later step (placeholder-save, template update, deactivation
\* or any other) changes the snapshot of a stored certificate.
C14_Step ==
  /\ \A c \in certs : \A d \in StoredAfter(c.oid) : d.snapshot = c.snapshot
  /\ \A r \in Reqs :
       (reqs[r].pc = "idle" /\ reqs'[r].pc # "idle") =>
         \E t \in templates :
           /\ t.id = reqs'[r].tid
           /\ reqs'[r].tmpl = [name |-> t.name, placeholders |-> t.placeholders,
                               dimensions |-> t.dimensions]
  /\ \A r \in Reqs :
       (reqs[r].pc # "idle" /\ reqs'[r].pc # "idle") => reqs'[r].tmpl = reqs[r].tmpl
  /\ \A d \in certs' :
       Stored(d.oid) = {} =>
         \E r \in Reqs : reqs[r].pc = "gotId" /\ d.snapshot = reqs[r].tmpl

C14_SnapshotByValue == [][C14_Step]_vars

C14_Witness ==
  \E c \in certs, t \in templates :
    /\ t.id = c.template
    /\ ~t.isActive
    /\ t.name # c.snapshot.name
    /\ t.placeholders # c.snapshot.placeholders
    /\ t.dimensions # c.snapshot.dimensions
    /\ c.snapshot = [name |-> "n1", placeholders |-> <<NameP, IdP>>,
                     dimensions |-> TemplateImage]

\* C15: every create request that persisted its pending record increments
\* the template's usage counter exactly once, whether rendering succeeds or
\* fails; a request rejected before the save leaves the counter alone; and
\* no increment is lost under concurrency: once the requests have passed
\* their increment, usageCount is the number of records ever persisted for
\* the template.
PersistedFor(tid) ==
  Cardinality({c \in certs : c.template = tid})
    + Cardinality({o \in 1..Inserted : \A c \in certs : c.oid # o})

AwaitingIncrement(tid) == {r \in Reqs : reqs[r].pc = "saved" /\ reqs[r].tid = tid}

C15_Counted ==
  \A t \in templates :
    t.usageCount + Cardinality(AwaitingIncrement(t.id)) = PersistedFor(t.id)

C15_Step ==
  \A t \in templates, u \in templates' :
    (u.id = t.id /\ u.usageCount # t.usageCount) =>
      /\ u.usageCount = t.usageCount + 1
      /\ \E r \in Reqs :
           /\ reqs[r].pc = "saved" /\ reqs'[r].pc = "counted"
           /\ reqs[r].tid = t.id
           /\ Stored(reqs[r].doc.oid) # {} \/ reqs[r].doc.oid \in 1..Inserted

C15_UsageCounted == []C15_Counted /\ [][C15_Step]_vars

C15_Witness ==
  /\ overlapped
  /\ \A r \in Reqs : reqs[r].pc = "idle"
  /\ \E c \in certs, d \in certs : c.status = "failed" /\ d.status = "generated"
  /\ \E t \in templates : t.usageCount = 2 /\ PersistedFor(t.id) = 2

\* The records an admin does not own stay as they are in this step.
OthersUnchanged(a) ==
  /\ {c \in certs' : c.createdBy # a} = {c \in certs : c.createdBy # a}
  /\ {t \in templates' : t.owner # a} = {t \in templates : t.owner # a}

\* The step belongs to a request of admin a.
StepOf(a) ==
  \/ \E n \in TemplateNames : UploadTemplate(a, n)
  \/ \E tid \in TemplateIds :
       \/ \E ps \in PlaceholderLists :
            SavePlaceholders(a, tid, ps) \/ SavePlaceholdersNotFound(a, tid, ps)
       \/ \E b \in BOOLEAN : SetTemplateActive(a, tid, b)
       \/ \E n \in UpdateNames : UpdateTemplate(a, tid, n)
       \/ TemplateNotFound(a, tid)
       \/ \E r \in Reqs : CreateFind(r, a, tid)
  \/ \E r \in Reqs :
       /\ reqs[r].admin = a
       /\ \/ CreateGenerateId(r) \/ CreateSave(r) \/ CreateIncrementUsage(r)
          \/ \E b \in CreateBodies, ok \in BOOLEAN : CreateRenderPNG(r, b.pv, b.cd, ok)
          \/ \E ok \in BOOLEAN : CreateRenderPDF(r, ok)
          \/ CreateFinalSave(r)
  \/ \E oid \in 1..MaxCreates :
       \/ Archive(a, oid) \/ ArchiveNotFound(a, oid)
       \/ \E f \in Formats : Download(a, oid, f) \/ DownloadNotFound(a, oid, f)
  \/ \E t \in ConfirmTexts : BulkDelete(a, t)

\* The step belongs to a request of admin a that names template tid, or
\* certificate oid.
NamesTemplate(a, tid) ==
  \/ \E ps \in PlaceholderLists :
       SavePlaceholders(a, tid, ps) \/ SavePlaceholdersNotFound(a, tid, ps)
  \/ \E b \in BOOLEAN : SetTemplateActive(a, tid, b)
  \/ \E n \in UpdateNames : UpdateTemplate(a, tid, n)
  \/ TemplateNotFound(a, tid)
  \/ \E r \in Reqs : CreateFind(r, a, tid)

NamesCertificate(a, oid) ==
  \/ Archive(a, oid) \/ ArchiveNotFound(a, oid)
  \/ \E f \in Formats : Download(a, oid, f) \/ DownloadNotFound(a, oid, f)

\* What the list and the single read of admin a return is a's own.
C18_ReadsOwn ==
  \A a \in Admins, oid \in 1..MaxCreates :
    \A c \in ListCertificates(a) \cup GetCertificate(a, oid) : c.createdBy = a

C18_Step ==
  \A a \in Admins :
    /\ OthersUnchanged(a) \/ ~StepOf(a)
    /\ \A tid \in TemplateIds :
         ((\E t \in templates : t.id = tid /\ t.owner # a) /\ NamesTemplate(a, tid))
           => /\ lastResp'.code = "404 template"
              /\ templates' = templates /\ certs' = certs /\ reqs' = reqs
    /\ \A oid \in 1..MaxCreates :
         ((\E c \in certs : c.oid = oid /\ c.createdBy # a) /\ NamesCertificate(a, oid))
           => /\ lastResp'.code = "404 certificate"
              /\ templates' = templates /\ certs' = certs

\* The certificate IDs of the records admin a created.
OwnIds(a) == {c.certificateId : c \in {d \in certs : d.createdBy = a}}

\* The ID a create request is given is computed from its admin's records.
C18_IdFromOwn ==
  \A r \in Reqs :
    CreateGenerateId(r) =>
      reqs'[r].doc.certificateId = GenerateNextId(OwnIds(reqs[r].admin), year)

C16_EmptyOrBoth ==
  \A t \in templates : t.placeholders = <<>> \/ NameAndId(t.placeholders)

C16_Step ==
  \A a \in Admins, tid \in TemplateIds, ps \in PlaceholderLists \cup EditedLists :
    ( /\ ps # <<>> /\ ~NameAndId(ps)
      /\ \/ SavePlaceholders(a, tid, ps)
         \/ SavePlaceholdersRefused(a, tid, ps)
         \/ SavePlaceholdersNotFound(a, tid, ps)
         \/ \E dims \in PostedDimensions : SaveLayout(a, tid, ps, dims) )
    => /\ lastResp'.code = "400 placeholders"
       /\ templates' = templates

C16_PlaceholderLists == []C16_EmptyOrBoth /\ [][C16_Step]_vars

C16_Witness ==
  /\ lastResp.code = "400 placeholders"
  /\ \E t \in templates : t.isActive /\ t.placeholders = <<IdP, NameP>>

\* The record slot r's request inserts in this step.
NewlyStored(r) ==
  {c \in certs' : c.oid = reqs'[r].doc.oid /\ Stored(c.oid) = {}}

\* The IDs whose output files were written so far, in year y.
WrittenIds(y) == {g.id : g \in {h \in files : h.id.year = y}}

\* C19: over creates handled one after the other, archives and bulk deletes
\* within one calendar year, the sequence number of a newly stored record is
\* strictly greater than every sequence number given out earlier in that
\* year, so that no certificate ID and no output file name
\* <certificateId>.<pdf|png> is given out twice.
C19_Step ==
  \A r \in Reqs :
    (CreateSave(r) /\ ~overlapped) =>
      \A c \in NewlyStored(r) :
        /\ \A f \in Formats : FileOf(c.certificateId, f) \notin files
        /\ \A id \in WrittenIds(year) :
             ParseInt(id.seq) < ParseInt(c.certificateId.seq)

C19_SequenceNeverReused == [][C19_Step]_vars

\* C20: for every set of existing certificate IDs of the current year, the
\* sets with sequence numbers of four or more digits next to 999 included,
\* generateNextId returns the numerically highest existing sequence number
\* plus one.
C20_Step ==
  \A r \in Reqs :
    CreateGenerateId(r) =>
      reqs'[r].doc.certificateId = CertId(year, PreviousSeq(year) + 1)

C20_NumericallyHighestPlusOne == [][C20_Step]_vars

\* C22: within one create request the PNG renderer has run to completion
\* before the PDF renderer starts; when the PNG renderer threw, the PDF
\* renderer is never invoked for that certificate; and when the PDF renderer
\* throws after the PNG was written, the request still ends in status failed.
C22_PngFirst ==
  \A r \in Reqs :
    IsDefined(reqs[r].pdf) =>
      /\ IsDefined(reqs[r].png) /\ Val(reqs[r].png).ok
      /\ FileOf(reqs[r].doc.certificateId, "png") \in files

C22_Step ==
  \A r \in Reqs :
    /\ (~IsDefined(reqs[r].pdf) /\ IsDefined(reqs'[r].pdf)) =>
         reqs[r].pc = "pngDone" /\ Val(reqs[r].png).ok
    /\ (IsDefined(reqs[r].png) /\ ~Val(reqs[r].png).ok) => ~IsDefined(reqs'[r].pdf)
    /\ (SecondSave(r) /\ IsDefined(reqs[r].pdf) /\ ~Val(reqs[r].pdf).ok) =>
         /\ reqs[r].doc.status = "failed"
         /\ \A d \in StoredAfter(reqs[r].doc.oid) :
              d.status = "failed" /\ d.generatedFiles = NoFiles
         /\ lastResp'.status \in {"failed", "none"}

C22_RasterThenVector == []C22_PngFirst /\ [][C22_Step]_vars

C22_Witness ==
  /\ lastResp.code = "201 created" /\ lastResp.status = "failed"
  /\ \E c \in certs :
       /\ c.status = "failed"
       /\ FileOf(c.certificateId, "png") \in files
       /\ FileOf(c.certificateId, "pdf") \notin files

\* C23: archived is terminal: once a certificate has been archived, its
\* status stays archived and isActive stays false under every later
\* operation and interleaving, an archive that arrives while the create
\* request of the same certificate is still rendering included.
C23_Step ==
  \A c \in certs :
    (c.status = "archived" /\ ~c.isActive) =>
      \A d \in StoredAfter(c.oid) : d.status = "archived" /\ ~d.isActive

C23_ArchivedTerminal == [][C23_Step]_vars

\* The requests that have stored their record and not yet finished.
InFlight(oid) ==
  {r \in Reqs : reqs[r].doc.oid = oid
                  /\ reqs[r].pc \in {"saved", "counted", "pngDone", "rendered", "threw"}}

\* C24: every create request that persisted its pending record eventually
\* finishes, and when it has finished the stored certificate is generated
\* or failed (or archived or removed by another request), never pending.
C24_PendingInFlight ==
  \A c \in certs : c.status = "pending" => InFlight(c.oid) # {}

C24_Step ==
  \A r \in Reqs :
    SecondSave(r) =>
      \A d \in StoredAfter(reqs[r].doc.oid) : d.status \in {"generated", "failed"}

C24_Finishes == \A r \in Reqs : (reqs[r].pc = "saved") ~> (reqs[r].pc = "idle")

C24_LeavesPending ==
  /\ []C24_PendingInFlight
  /\ [][C24_Step]_vars
  /\ C24_Finishes

C24_Witness ==
  /\ \A r \in Reqs : reqs[r].pc = "idle"
  /\ Inserted = MaxCreates /\ Cardinality(certs) = MaxCreates
  /\ \A c \in certs : c.status \in {"generated", "failed"}

\* C27: each successful single download of a generated certificate raises
\* that certificate's download counter by exactly one, also when downloads
\* overlap; a download that is rejected (invalid format, not the owner,
\* inactive, status not generated, file missing on disk) leaves the counter
\* unchanged.
C27_CountsServed ==
  \A c \in certs : c.downloadCount = downloads.served[c.oid]

C27_Step ==
  /\ \A s \in DownloadSlots :
       DownloadIncrement(s) =>
         \A c \in Stored(downloads.slots[s].oid) :
           \A d \in StoredAfter(c.oid) : d.downloadCount = c.downloadCount + 1
  /\ \A s \in DownloadSlots, a \in Admins, oid \in DownloadOids, f \in BulkFormats :
       (DownloadFind(s, a, oid, f) /\ DownloadCheck(a, oid, f) # "ok") =>
         /\ certs' = certs
         /\ downloads' = downloads
         /\ lastResp'.code = DownloadCheck(a, oid, f)

C27_DownloadCounter == []C27_CountsServed /\ [][C27_Step]_vars

C27_Witness ==
  /\ \E c \in certs : c.downloadCount = 2 /\ c.status = "generated"
  /\ \A s \in DownloadSlots : downloads.slots[s].pc = "idle"
  /\ lastResp.code = "200 file"

\* C28: when a renderer throws during a create request, the outcome
\* reported to the admin is a generation failure: neither the create
\* response nor the generate page reports the certificate as successfully
\* created or generated.
C28_FailureReported ==
  (lastResp.code # "none" /\ lastResp.status = "failed") =>
    /\ ~ResponseOk(lastResp)
    /\ ~(lastResp.code = "201 created" /\ CreatedBody.success)
    /\ ToastOf(lastResp).kind = "error"

\* C29: after any sequence of template uploads, renames, deactivations and
\* reactivations no admin has two active templates of the same name.
C29_UniqueActiveNames ==
  \A t \in templates, u \in templates :
    (t.owner = u.owner /\ t.name = u.name /\ t.isActive /\ u.isActive)
      => t.id = u.id

\* ========================================================= font properties
\* The category of a substitute font.
FontCategory(f) ==
  CASE f \in {"Arial", "Helvetica", "Verdana"} -> "sans"
    [] f \in {"Times New Roman", "Times-Roman", "Georgia"} -> "serif"
    [] f \in {"Courier New", "Courier"} -> "mono"
    [] OTHER -> "none"

\* C17: for every font family name the raster table and the vector table
\* resolve it to substitutes of the same category (sans, serif or
\* monospace), and a name present in neither table resolves to the default
\* sans-serif in both: Arial for raster, Helvetica for vector.
C17_FontTablesAgree ==
  mapper.pdf # NoFont =>
    /\ FontCategory(mapper.canvas) \in {"sans", "serif", "mono"}
    /\ FontCategory(mapper.canvas) = FontCategory(mapper.pdf)
    /\ FontFamilyOf(mapper.fontFamily) \notin FontMapKeys =>
         mapper.canvas = "Arial" /\ mapper.pdf = "Helvetica"

\* The part of C17 that holds: the names the tables list, and the names that
\* no object inherits.
C17_ListedAgree ==
  (mapper.pdf # NoFont /\ mapper.fontFamily \notin InheritedKeys) =>
    /\ FontCategory(mapper.canvas) \in {"sans", "serif", "mono"}
    /\ FontCategory(mapper.canvas) = FontCategory(mapper.pdf)
    /\ FontFamilyOf(mapper.fontFamily) \notin FontMapKeys =>
         mapper.canvas = "Arial" /\ mapper.pdf = "Helvetica"

\* ===================================================== renderer properties
\* The renderer outcomes a state of MapperSpec holds.
MapperOuts ==
  {Val(o) : o \in {x \in {mapper.png, mapper.pdf} : IsDefined(x)}}

BothRan ==
  /\ IsDefined(mapper.png) /\ Val(mapper.png).ok
  /\ IsDefined(mapper.pdf) /\ Val(mapper.pdf).ok

PlaceholderOfType(ps, t) == ps[CHOOSE i \in 1..Len(ps) : ps[i].type = t]

WidthGiven(cd) ==
  IsDefined(cd) /\ IsDefined(Val(cd).width) /\ Val(Val(cd).width) # 0
HeightGiven(cd) ==
  IsDefined(cd) /\ IsDefined(Val(cd).height) /\ Val(Val(cd).height) # 0

\* C6: for every image size, every containerDimensions (present, missing or
\* partly missing) and every placeholder, the PNG and the PDF renderer
\* compute the same scaleX and scaleY and hand the same scaled x, y and font
\* size to their drawing primitive.
C6_RenderersAgree ==
  BothRan =>
    LET a == Val(mapper.png)
        b == Val(mapper.pdf)
    IN  /\ a.scale = b.scale
        /\ Len(a.draws) = Len(b.draws)
        /\ \A i \in 1..Len(a.draws) :
             /\ a.draws[i].type = b.draws[i].type
             /\ a.draws[i].at = b.draws[i].at

C6_Witness ==
  /\ BothRan
  /\ Len(Val(mapper.pdf).draws) = 2
  /\ IsDefined(mapper.cd)
  /\ WidthGiven(mapper.cd) /\ ~HeightGiven(mapper.cd)
  /\ Val(mapper.pdf).scale.scaleX # Num(1)

\* C7: for every non-zero containerDimensions, scaledX * containerWidth =
\* x * actualWidth; and when containerDimensions equals the image's own
\* size, scaleX = scaleY = 1 and x, y and fontSize are drawn unchanged.
C7_ScaleInvariance ==
  \A out \in MapperOuts :
    (out.ok /\ WidthGiven(mapper.cd) /\ HeightGiven(mapper.cd)) =>
      LET cw == Val(Val(mapper.cd).width)
          ch == Val(Val(mapper.cd).height)
          aw == mapper.img.width
          ah == mapper.img.height
      IN  /\ \A i \in 1..Len(out.draws) :
               LET d == out.draws[i]
                   p == PlaceholderOfType(mapper.placeholders, d.type)
               IN  /\ d.at.x.d # 0
                   /\ d.at.x.n * cw = p.x * aw * d.at.x.d
                   /\ (cw = aw /\ ch = ah) =>
                        /\ d.at.x = [n |-> p.x, d |-> 1]
                        /\ d.at.y = [n |-> p.y, d |-> 1]
                        /\ d.at.fontSize = [n |-> p.fontSize, d |-> 1]
          /\ (cw = aw /\ ch = ah) =>
               /\ out.scale.scaleX = [n |-> 1, d |-> 1]
               /\ out.scale.scaleY = [n |-> 1, d |-> 1]

C7_Witness ==
  /\ BothRan
  /\ WidthGiven(mapper.cd) /\ HeightGiven(mapper.cd)
  /\ Val(Val(mapper.cd).width) # mapper.img.width
  /\ \E i \in 1..Len(Val(mapper.png).draws) : Val(mapper.png).draws[i].at.x.n > 0

\* C8: image 1000x600, container 800x480, name placeholder at (100, 50) with
\* font size 24: both renderers draw it at (125, 62.5) with font size 30; in
\* general the font size is multiplied by scaleX = actualWidth divided by
\* the display width.
C8_Scenario ==
  \A out \in MapperOuts :
    out.ok =>
      /\ out.scale.scaleX.n * out.display.width.n =
           mapper.img.width * out.display.width.d * out.scale.scaleX.d
      /\ \A i \in 1..Len(out.draws) :
           LET d == out.draws[i]
               p == PlaceholderOfType(mapper.placeholders, d.type)
           IN  /\ d.at.fontSize.n * out.scale.scaleX.d =
                    p.fontSize * out.scale.scaleX.n * d.at.fontSize.d
               /\ ( /\ mapper.img = [width |-> 1000, height |-> 600]
                    /\ mapper.cd = Some([width |-> Some(800), height |-> Some(480)])
                    /\ p = [type |-> "name", x |-> 100, y |-> 50, fontSize |-> 24] )
                  => d.at = [x |-> [n |-> 125, d |-> 1],
                             y |-> [n |-> 125, d |-> 2],
                             fontSize |-> [n |-> 30, d |-> 1]]

C8_Witness ==
  /\ BothRan
  /\ mapper.img = [width |-> 1000, height |-> 600]
  /\ mapper.cd = Some([width |-> Some(800), height |-> Some(480)])
  /\ \E i \in 1..Len(Val(mapper.pdf).draws) :
       /\ Val(mapper.pdf).draws[i].type = "name"
       /\ Val(mapper.pdf).draws[i].at.fontSize = [n |-> 30, d |-> 1]
       /\ Val(mapper.png).draws[i].at.y = [n |-> 125, d |-> 2]

\* C9: for every containerDimensions (missing, width 0, height 0, one side
\* only) the divisors of scaleX and scaleY are non-zero: a missing or zero
\* width is replaced by 800, a missing or zero height by
\* width * actualHeight / actualWidth, and then scaleY = scaleX.
C9_NoZeroDivisor ==
  \A out \in MapperOuts :
    out.ok =>
      LET w == out.display.width
          h == out.display.height
      IN  /\ w.n # 0 /\ w.d # 0
          /\ h.n # 0 /\ h.d # 0
          /\ out.scale.scaleX.d # 0 /\ out.scale.scaleY.d # 0
          /\ ~WidthGiven(mapper.cd) => w = [n |-> 800, d |-> 1]
          /\ ~HeightGiven(mapper.cd) =>
               /\ h.n * mapper.img.width * w.d = w.n * mapper.img.height * h.d
               /\ out.scale.scaleY = out.scale.scaleX

C9_Witness ==
  /\ BothRan
  /\ mapper.cd = Some([width |-> Some(0), height |-> Undefined])
  /\ Val(mapper.pdf).display.width = [n |-> 800, d |-> 1]
  /\ Val(mapper.pdf).scale.scaleY = Val(mapper.pdf).scale.scaleX

\* C10: a placeholder whose value is the empty string, or whose type is no
\* key of the placeholderValues map, is drawn by neither renderer and makes
\* neither throw; the other placeholders are drawn, and generation ends in
\* status generated.
HasValue(pv, p) == p.type \in DOMAIN Val(pv) /\ Val(pv)[p.type] # ""

C10_SkipEmpty ==
  IsDefined(mapper.pv) =>
    LET kept == SelectSeq(mapper.placeholders, LAMBDA p : HasValue(mapper.pv, p))
    IN  /\ \A out \in MapperOuts :
             /\ mapper.decodeOk => out.ok
             /\ out.ok =>
                  /\ Len(out.draws) = Len(kept)
                  /\ \A i \in 1..Len(kept) :
                       /\ out.draws[i].type = kept[i].type
                       /\ out.draws[i].text = Val(mapper.pv)[kept[i].type]
                       /\ out.draws[i].text # ""
        /\ (mapper.decodeOk /\ mapper.status # "pending") =>
             mapper.status = "generated"

C10_Witness ==
  /\ BothRan
  /\ mapper.pv = Some([name |-> "", id |-> "X1"])
  /\ Len(Val(mapper.png).draws) = 1
  /\ Len(Val(mapper.pdf).draws) = 1
  /\ mapper.status = "generated"

\* The draws of an outcome are its placeholders' coordinates and font size
\* multiplied by the factors named xOf (for x), yOf (for y) and fOf (for
\* fontSize).
DrawsScaledBy(out, xOf, yOf, fOf) ==
  \A i \in 1..Len(out.draws) :
    LET d == out.draws[i]
        p == PlaceholderOfType(mapper.placeholders, d.type)
    IN  /\ d.at.x = FMul(Num(p.x), out.scale[xOf])
        /\ d.at.y = FMul(Num(p.y), out.scale[yOf])
        /\ d.at.fontSize = FMul(Num(FontSizeOf(p)), out.scale[fOf])

\* C21 as stated: every placeholder's x, y and fontSize are all multiplied
\* by the horizontal factor scaleX before they are handed to a renderer, for
\* every container size, those of another aspect ratio included.
C21_AllByScaleX ==
  \A out \in MapperOuts :
    out.ok => DrawsScaledBy(out, "scaleX", "scaleX", "scaleX")

\* C21 amended: x and fontSize are multiplied by the horizontal factor
\* scaleX and y by the vertical factor scaleY, for every container size.
C21_YByScaleY ==
  \A out \in MapperOuts :
    out.ok => DrawsScaledBy(out, "scaleX", "scaleY", "scaleX")

C21_Witness ==
  /\ BothRan
  /\ Val(mapper.png).scale.scaleX # Val(mapper.png).scale.scaleY
  /\ Val(mapper.png).scale.scaleY.d # 0
  /\ \E i \in 1..Len(Val(mapper.png).draws) :
       /\ Val(mapper.png).draws[i].at.y.n > 0
       /\ Val(mapper.png).draws[i].at.y #
            FMul(Num(PlaceholderOfType(mapper.placeholders,
                                       Val(mapper.png).draws[i].type).y),
                 Val(mapper.png).scale.scaleX)

\* ================================================ bulk download properties
TerminalEvents == {"completed", "error"}

EventsWith(statuses) ==
  {i \in 1..Len(bulk.events) : bulk.events[i].status \in statuses}

\* The selected certificates the requester owns that are active and whose
\* file <certificateId>.<format> is on disk.
Downloadable(a, ids, f) ==
  {c \in certs : /\ c.oid \in ids /\ c.createdBy = a /\ c.isActive
                 /\ FileOf(c.certificateId, f) \in files}

\* C25: a bulk download that has emitted its started event emits exactly
\* one terminal event, completed with a zipFileName or error with a message,
\* and no event after it, also when no selected certificate has a file to
\* add: once the handler has finished, the last event is the one terminal
\* event (a handler that has finished emits nothing further).
C25_TerminalEvent ==
  (bulk.pc = "done" /\ EventsWith({"started"}) # {}) =>
    /\ EventsWith(TerminalEvents) = {Len(bulk.events)}
    /\ LET e == bulk.events[Len(bulk.events)]
       IN  \/ e.status = "completed" /\ IsDefined(e.zipFileName)
           \/ e.status = "error" /\ IsDefined(e.error)

\* C26: every selected certificate that the requester owns, that is active
\* and whose generated file exists is added to the archive exactly once, and
\* the added count of the final event is the number of such certificates.
C26_AddedCount ==
  (bulk.pc = "done" /\ bulk.format \in Formats) =>
    LET files_ == Downloadable(bulk.admin, bulk.ids, bulk.format)
    IN  /\ bulk.added = Cardinality(files_)
        /\ files_ # {} =>
             /\ bulk.events # <<>>
             /\ bulk.events[Len(bulk.events)].added = Cardinality(files_)

====
